---- MODULE Spec2Model ----
(***************************************************************************)
(* Ingestion state machine of the MetroCircuit backend                     *)
(* (google-apps-script/Code.gs): process_document, process_batch,          *)
(* get_process_status, embed_chunks, delete_document and query, over the   *)
(* Documents / Chunks / QueryLogs sheets and the script properties that    *)
(* hold the batch state and the page groups.                               *)
(*                                                                         *)
(* Text is modelled by its lengths.  An extracted text is a sequence of    *)
(* blobs separated by one form feed; a blob is a run of characters with no *)
(* white space, no newline and no engineering keyword, so that a page that *)
(* is a blob has a single section and trims to itself.                     *)
(***************************************************************************)
EXTENDS Integers, Sequences, FiniteSets, TLC

VARIABLES docs, bstate, bpages, chunks, logs, drive, resp, hist, run, client, llm,
          windows, flight

vars == <<docs, bstate, bpages, chunks, logs, drive, resp, hist, run, client, llm,
         windows, flight>>

\* the variables of the specifications of one function each and of the
\* invocation in flight
fnVars == <<llm, windows, flight>>

(***************************************************************************)
(* Program constants                                                       *)
(***************************************************************************)
TIME_LIMIT_MS == 5 * 60 * 1000
CHUNK_TARGET_SIZE == 800
CHUNK_OVERLAP == 300
MIN_TEXT_LEN == 10
MIN_PAGE_LEN == 5
MIN_CHUNK_PAGE_LEN == 10
BATCH_SKIP_LEN == 5
GROUP_CEILING == 8000
\* "Script Properties has a 9KB per value limit"
PROP_VALUE_LIMIT == 9 * 1024
CLEANUP_DEFAULT_GROUPS == 50
STRATEGY2_MAX_PAGES == 3
STRATEGY2_MIN_TEXT == 5000
STRATEGY3_MAX_PAGES == 2
STRATEGY3_MIN_TEXT == 3000
PAGE_SIZE == 2000
SNAP_RANGE == 200
OVERSIZE_CHUNK == 2000
HARD_SPLIT_EXTRA == 200
RATE_LIMIT_SLEEP_MS == 500
\* "Safety limit" of the polling loop of the client
MAX_ITERATIONS == 200

(***************************************************************************)
(* Bounds of the model                                                     *)
(***************************************************************************)
MaxGroups == 3
MaxLogs == 1
MaxHist == 3
MaxRows == 4

DocIds == {"d1", "d2"}
NoId == ""
\* the outcome of DriveApp.getFileById when the file is gone
NoFile == "nofile"

(***************************************************************************)
(* The texts the extraction of a Drive file can yield, by name.            *)
(***************************************************************************)
TextBlobs ==
  [ empty  |-> <<0>>,
    short  |-> <<4>>,
    tiny   |-> <<5, 5>>,
    stubs  |-> <<7, 7>>,
    note   |-> <<120>>,
    memo   |-> <<100, 3, 200>>,
    wide   |-> <<1990, 1990, 1990, 1990, 1990>>,
    huge   |-> <<20, 20, 20, 20, 20, 20, 9500>>,
    block  |-> <<3500>>,
    long   |-> <<20, 20, 2491, 8500>>,
    book   |-> [i \in 1..25 |-> 20],
    tome   |-> [i \in 1..(MAX_ITERATIONS + 2) |-> 20] ]

TextNames == DOMAIN TextBlobs

\* the sum of a sequence of numbers, by halves
RECURSIVE SumSeq(_)
SumSeq(s) ==
  IF s = <<>> THEN 0
  ELSE IF Len(s) = 1 THEN s[1]
  ELSE SumSeq(SubSeq(s, 1, Len(s) \div 2)) + SumSeq(SubSeq(s, (Len(s) \div 2) + 1, Len(s)))

\* text.length: the blobs and one separator between neighbours
TextLen(t) ==
  LET b == TextBlobs[t] IN SumSeq(b) + (Len(b) - 1)

RECURSIVE DropLeadingBlank(_)
DropLeadingBlank(b) ==
  IF b # <<>> /\ Head(b) = 0 THEN DropLeadingBlank(Tail(b)) ELSE b

RECURSIVE DropTrailingBlank(_)
DropTrailingBlank(b) ==
  IF b # <<>> /\ b[Len(b)] = 0
    THEN DropTrailingBlank(SubSeq(b, 1, Len(b) - 1))
    ELSE b

\* text.trim().length: leading and trailing separators go with the blank blobs
TextTrimLen(t) ==
  LET b == DropTrailingBlank(DropLeadingBlank(TextBlobs[t]))
  IN  IF b = <<>> THEN 0 ELSE SumSeq(b) + (Len(b) - 1)

(***************************************************************************)
(* splitIntoPages.  A page is [src, idx, len]: the text it was cut from,   *)
(* its position there and its length.                                      *)
(***************************************************************************)
MkPage(t, i, n) == [src |-> t, idx |-> i, len |-> n]

\* Strategy 1: cut at the page markers
MarkerSplit(t) ==
  LET b == TextBlobs[t] IN [i \in 1..Len(b) |-> MkPage(t, i, b[i])]

\* Strategy 2: cut before numbered headings; a text of blobs has none
HeadingSplit(t) == << MkPage(t, 0, TextLen(t)) >>

\* Strategy 3 on a text of length len whose newlines stand at the positions
\* nl.  text.indexOf("\n", from), -1 when there is none
IndexOfNewline(nl, from) ==
  IF {q \in nl : q >= from} = {} THEN -1
  ELSE CHOOSE q \in nl : q >= from /\ \A r \in nl : r >= from => q <= r

\* the end of the window that starts at i: i + pageSize or the end of the
\* text, moved to a newline found near it
SnapEnd(len, nl, end) ==
  IF end < len /\ IndexOfNewline(nl, end - SNAP_RANGE) > 0
       /\ IndexOfNewline(nl, end - SNAP_RANGE) < end + SNAP_RANGE
    THEN IndexOfNewline(nl, end - SNAP_RANGE)
    ELSE end

WindowEndAt(len, nl, i) ==
  SnapEnd(len, nl, IF i + PAGE_SIZE < len THEN i + PAGE_SIZE ELSE len)

\* if (end !== i + pageSize) i = end - i - pageSize + end; then i += pageSize
NextWindowStart(i, end) ==
  (IF end # i + PAGE_SIZE THEN end - i - PAGE_SIZE + end ELSE i) + PAGE_SIZE

RECURSIVE WindowLoop(_, _, _, _)
WindowLoop(len, nl, i, acc) ==
  IF i >= len THEN acc
  ELSE WindowLoop(len, nl, NextWindowStart(i, WindowEndAt(len, nl, i)),
                  Append(acc, [start |-> i, end |-> WindowEndAt(len, nl, i)]))

\* "Simpler fallback": windows of 2000 characters
RECURSIVE PlainWindows(_, _, _)
PlainWindows(len, i, acc) ==
  IF i >= len THEN acc
  ELSE PlainWindows(len, i + PAGE_SIZE,
                    Append(acc, [start |-> i,
                                 end |-> IF i + PAGE_SIZE < len THEN i + PAGE_SIZE ELSE len]))

FixedWindows(len, nl) ==
  IF Len(WindowLoop(len, nl, 0, <<>>)) <= 1 THEN PlainWindows(len, 0, <<>>)
  ELSE WindowLoop(len, nl, 0, <<>>)

\* a text of blobs has no newline, so no window end is snapped
WindowPages(t, w) == [j \in 1..Len(w) |-> MkPage(t, j, w[j].end - w[j].start)]

WindowSplit(t) == WindowPages(t, FixedWindows(TextLen(t), {}))

IsKeptPage(pg) == pg.len > MIN_PAGE_LEN

splitIntoPages(t) ==
  LET p1 == MarkerSplit(t)
      p2 == IF Len(p1) <= STRATEGY2_MAX_PAGES /\ TextLen(t) > STRATEGY2_MIN_TEXT
              THEN HeadingSplit(t) ELSE p1
      p3 == IF Len(p2) <= STRATEGY3_MAX_PAGES /\ TextLen(t) > STRATEGY3_MIN_TEXT
              THEN WindowSplit(t) ELSE p2
  IN  SelectSeq(p3, IsKeptPage)

(***************************************************************************)
(* Page packing of processDocumentAction and the size of a stored value    *)
(***************************************************************************)
\* the characters of a sequence of pages, summed by halves
RECURSIVE SumLen(_)
SumLen(g) ==
  IF g = <<>> THEN 0
  ELSE IF Len(g) = 1 THEN g[1].len
  ELSE SumLen(SubSeq(g, 1, Len(g) \div 2)) + SumLen(SubSeq(g, (Len(g) \div 2) + 1, Len(g)))

\* the page that opens the group after the one page i opens: the first page
\* that would lift the size of the non-empty current group above the ceiling
GroupEnd(pages, i) ==
  LET cuts == {j \in (i + 1)..Len(pages) :
                 SumLen(SubSeq(pages, i, j - 1)) + pages[j].len > GROUP_CEILING}
  IN  IF cuts = {} THEN Len(pages) + 1
      ELSE CHOOSE j \in cuts : \A k \in cuts : j <= k

\* the packing loop, one group a step: the group that page i opens is pushed
\* when the page GroupEnd names arrives, or after the loop
RECURSIVE PackFrom(_, _, _)
PackFrom(pages, i, pageGroups) ==
  IF i > Len(pages) THEN pageGroups
  ELSE PackFrom(pages, GroupEnd(pages, i),
                Append(pageGroups, SubSeq(pages, i, GroupEnd(pages, i) - 1)))

PackGroups(pages) == PackFrom(pages, 1, <<>>)

\* JSON.stringify of an array of strings: brackets, quotes and commas
JsonSize(g) == 2 + SumLen(g) + 2 * Len(g) + (Len(g) - 1)

\* setProperty refuses a value above the per-value limit of the property store
SetPropertyThrows(g) == JsonSize(g) > PROP_VALUE_LIMIT

(***************************************************************************)
(* engineeringChunkPage on a page of one section                           *)
(***************************************************************************)
\* "[Page " + pageNumber + "]\n"
MarkerLen(pageNumber) == IF pageNumber < 10 THEN 9 ELSE IF pageNumber < 100 THEN 10 ELSE 11

MkFrag(pg, pageNumber, k, n) ==
  [text |-> [src |-> pg.src, idx |-> pg.idx, k |-> k, len |-> n], pageNumber |-> pageNumber]

WindowEnd_NoOverlap(k, total) ==
  IF k + CHUNK_TARGET_SIZE < total THEN k + CHUNK_TARGET_SIZE ELSE total

\* Math.min(k + CHUNK_TARGET_SIZE + 200, chunk.text.length)
WindowEnd(k, total) ==
  IF k + CHUNK_TARGET_SIZE + HARD_SPLIT_EXTRA < total
    THEN k + CHUNK_TARGET_SIZE + HARD_SPLIT_EXTRA ELSE total

\* for (let k = 0; k < chunk.text.length; k += CHUNK_TARGET_SIZE)
RECURSIVE HardSplit(_, _, _, _, _)
HardSplit(pg, pageNumber, total, k, acc) ==
  IF k >= total THEN acc
  ELSE HardSplit(pg, pageNumber, total, k + CHUNK_TARGET_SIZE,
                 Append(acc, MkFrag(pg, pageNumber, k, WindowEnd(k, total) - k)))

engineeringChunkPage(pg, pageNumber) ==
  IF pg.len < MIN_CHUNK_PAGE_LEN THEN <<>>
  ELSE
    \* the only section either joins the empty buffer or replaces it; the
    \* trimmed buffer is the section in both branches
    LET total == MarkerLen(pageNumber) + pg.len
    IN  IF total > OVERSIZE_CHUNK
          THEN HardSplit(pg, pageNumber, total, 0, <<>>)
          ELSE << MkFrag(pg, pageNumber, 0, total) >>

(***************************************************************************)
(* The stores: Documents and Chunks sheets, script properties              *)
(***************************************************************************)
NoDoc ==
  [exists |-> FALSE, linked |-> FALSE, status |-> "none", pageCount |-> 0, folder |-> ""]

NoState ==
  [present |-> FALSE, docId |-> NoId, totalPages |-> 0, processedPages |-> 0,
   totalChunks |-> 0, pageGroupCount |-> 0]

GroupIdx == 0..(MaxGroups - 1)

NoGroups == [g \in GroupIdx |-> <<>>]

Store == [docs |-> docs, bstate |-> bstate, bpages |-> bpages, chunks |-> chunks]

\* a query request without any parameter
NoRequest ==
  [query |-> "", documentId |-> NoId, folderId |-> "", filterPanel |-> "",
   filterVoltage |-> "", matchCount |-> 0, outputType |-> ""]

\* the part of a response that only a query fills
NoQ ==
  [searchMode |-> "", answer |-> "", ranked |-> <<>>, matches |-> <<>>,
   rerank |-> [kind |-> "", indices |-> <<>>], usedRerank |-> FALSE, k |-> 0, req |-> NoRequest, emb |-> "",
   logOk |-> FALSE, draft |-> "", verify |-> "", verifyCalled |-> FALSE, scored |-> <<>>]

NoResp ==
  [op |-> "none", doc |-> NoId, kind |-> "none", err |-> "", status |-> "",
   totalPages |-> 0, pagesProcessed |-> 0, totalChunks |-> 0,
   created |-> 0, visited |-> <<>>, yield |-> <<>>, text |-> "", hasQuery |-> FALSE,
   guard |-> FALSE, done |-> 0,
   q |-> NoQ]

ErrResp(op, d, msg) == [NoResp EXCEPT !.op = op, !.doc = d, !.kind = "error", !.err = msg]

updateDocStatus(S, d, status, pageCount) ==
  IF S.docs[d].exists
    THEN [S EXCEPT !.docs[d].status = status, !.docs[d].pageCount = pageCount]
    ELSE S

deleteChunksByDocId(S, d) ==
  LET Other(row) == row.doc # d
  IN  [S EXCEPT !.chunks = SelectSeq(S.chunks, Other)]

deleteRowById(S, d) == [S EXCEPT !.docs[d] = NoDoc]

cleanupBatchState(S, d, groupCount) ==
  LET n == IF groupCount = 0 THEN CLEANUP_DEFAULT_GROUPS ELSE groupCount
  IN  [S EXCEPT !.bstate[d] = NoState,
                !.bpages[d] = [g \in GroupIdx |-> IF g < n THEN <<>> ELSE S.bpages[d][g]]]

(***************************************************************************)
(* processBatchAction                                                      *)
(***************************************************************************)
RECURSIVE LoadPages(_, _, _, _)
LoadPages(S, state, g, allPages) ==
  IF g >= state.pageGroupCount \/ g \notin GroupIdx THEN allPages
  ELSE LoadPages(S, state, g + 1, allPages \o S.bpages[state.docId][g])

\* what the extraction provider answers for a chunk: no answer, a text that
\* is no JSON, the JSON null, or an object with a panel and a voltage
Extractions == {"down", "nonjson", "null", "tagged"}

fallbackExtract == [panel |-> "", voltage |-> ""]

\* every failure is caught inside and replaced by fallbackExtract
extractEngineeringData(ex) ==
  IF ex = "tagged" THEN [panel |-> "MDB-1", voltage |-> "11kV"] ELSE fallbackExtract

MkRow(d, frag, ex) ==
  LET extraction == extractEngineeringData(ex) IN
  [doc |-> d, text |-> frag.text, pageNumber |-> frag.pageNumber,
   panel |-> extraction.panel, voltage |-> extraction.voltage, emb |-> FALSE]

FragRows(d, frags, ex) == [i \in 1..Len(frags) |-> MkRow(d, frags[i], ex)]

\* the page loop: p is the page index, elapsed the time since the step
\* started, cost the time one page takes in this invocation
RECURSIVE BatchLoop(_, _, _, _, _, _, _)
BatchLoop(d, allPages, p, elapsed, cost, ex, acc) ==
  IF p >= Len(allPages) THEN acc
  ELSE IF elapsed > TIME_LIMIT_MS THEN [acc EXCEPT !.guard = TRUE]
  ELSE LET pageText == allPages[p + 1] IN
       IF pageText.len < BATCH_SKIP_LEN
         THEN BatchLoop(d, allPages, p + 1, elapsed, cost, ex,
                        [acc EXCEPT !.done = @ + 1])
         ELSE LET pageChunks == engineeringChunkPage(pageText, p + 1)
                  \* Utilities.sleep(500) after every third page
                  nap == IF (acc.done + 1) % 3 = 0 THEN RATE_LIMIT_SLEEP_MS ELSE 0
              IN  BatchLoop(d, allPages, p + 1, elapsed + cost + nap, cost, ex,
                            [done    |-> acc.done + 1,
                             rows    |-> acc.rows \o FragRows(d, pageChunks, ex),
                             visited |-> Append(acc.visited, p),
                             yield   |-> Append(acc.yield, Len(pageChunks)),
                             guard   |-> FALSE])

FirstPage_FromZero(state) == 0

\* the page the loop starts at
FirstPage(state) == state.processedPages

IsComplete_Strict(state, allPages) == state.processedPages > Len(allPages)

\* const isComplete = state.processedPages >= allPages.length
IsComplete(state, allPages) == state.processedPages >= Len(allPages)

AdvanceState_CountsNextPage(state, done, created) ==
  [state EXCEPT !.processedPages = @ + done + 1, !.totalChunks = @ + created]

AdvanceState_ChunksOnly(state, done, created) ==
  [state EXCEPT !.totalChunks = @ + created]

\* state.processedPages += pagesProcessedThisBatch; state.totalChunks += chunksCreated
AdvanceState(state, done, created) ==
  [state EXCEPT !.processedPages = @ + done, !.totalChunks = @ + created]

\* the step after the page loop: the state is advanced and either cleaned up
\* or saved; st2 is the advanced state, rows the chunk rows the loop appended
FinishBatch(S, d, st2, allPages, rows, visited, yield) ==
  LET S1 == [S EXCEPT !.chunks = @ \o rows]
      r  == [NoResp EXCEPT !.op = "process_batch", !.doc = d, !.kind = "ok",
                           !.totalPages = st2.totalPages,
                           !.pagesProcessed = st2.processedPages,
                           !.totalChunks = st2.totalChunks,
                           !.created = Len(rows),
                           !.visited = visited,
                           !.yield = yield]
  IN
  IF IsComplete(st2, allPages)
    THEN [S |-> updateDocStatus(cleanupBatchState(S1, st2.docId, st2.pageGroupCount),
                                st2.docId, "indexed", st2.totalChunks),
          resp |-> [r EXCEPT !.status = "indexed"]]
    ELSE [S |-> [S1 EXCEPT !.bstate[d] = st2],
          resp |-> [r EXCEPT !.status = "in_progress"]]

\* the page loop run on the loaded pages, then the step after it
\* the response with the record of the loop: whether the time guard ended
\* it, and the pages it completed
WithLoop(out, loop) ==
  [out EXCEPT !.resp.guard = loop.guard, !.resp.done = loop.done]

AfterLoop(S, d, state, allPages, loop) ==
  WithLoop(FinishBatch(S, d, AdvanceState(state, loop.done, Len(loop.rows)), allPages,
                       loop.rows, loop.visited, loop.yield), loop)

\* the counters of the page loop before its first page
EmptyLoop == [done |-> 0, rows |-> <<>>, visited |-> <<>>, yield |-> <<>>, guard |-> FALSE]

\* the step once the state record and its pages are loaded
RunBatch(S, d, state, allPages, load, cost, ex) ==
  IF Len(allPages) = 0
    THEN [S |-> updateDocStatus(cleanupBatchState(S, state.docId, state.pageGroupCount),
                                state.docId, "indexed", state.totalChunks),
          resp |-> [NoResp EXCEPT !.op = "process_batch", !.doc = d, !.kind = "ok",
                                  !.status = "indexed",
                                  !.totalPages = state.totalPages,
                                  !.totalChunks = state.totalChunks,
                                  !.pagesProcessed = state.totalPages]]
    ELSE AfterLoop(S, d, state, allPages,
                   BatchLoop(state.docId, allPages, FirstPage(state), load, cost, ex,
                             EmptyLoop))

processBatchAction(S, d, load, cost, ex) ==
  IF d = NoId
    THEN [S |-> S, resp |-> ErrResp("process_batch", d, "Document ID required")]
  ELSE IF ~S.bstate[d].present
    THEN [S |-> S, resp |-> ErrResp("process_batch", d, "No batch processing state found")]
  ELSE RunBatch(S, d, S.bstate[d], LoadPages(S, S.bstate[d], 0, <<>>), load, cost, ex)

(***************************************************************************)
(* processDocumentAction                                                   *)
(***************************************************************************)
\* the page groups are stored one by one; the first refused value throws
RECURSIVE StoreGroups(_, _, _, _)
StoreGroups(S, d, pageGroups, g) ==
  IF g >= Len(pageGroups) THEN [S |-> S, thrown |-> FALSE]
  ELSE IF SetPropertyThrows(pageGroups[g + 1]) THEN [S |-> S, thrown |-> TRUE]
  ELSE StoreGroups([S EXCEPT !.bpages[d][g] = pageGroups[g + 1]], d, pageGroups, g + 1)

DeleteOldChunks_Skipped(S, d) == S

DeleteOldChunks(S, d) == deleteChunksByDocId(S, d)

ExtractionFails_EmptyOnly(t) == TextLen(t) = 0

\* !text || text.trim().length < 10
ExtractionFails(t) == TextLen(t) = 0 \/ TextTrimLen(t) < MIN_TEXT_LEN

WithText(r, t) == [r EXCEPT !.text = t]

\* the first batch runs inside process_document and answers for it
FirstBatch(b, t) ==
  [S |-> b.S, resp |-> WithText([b.resp EXCEPT !.op = "process_document"], t)]

\* the state record is saved after the page groups; then the old chunks go,
\* the status becomes processing and the first batch runs
StartBatches(S0, d, t, pages, pageGroups, stored, load, cost, ex) ==
  IF stored.thrown
    THEN [S |-> stored.S,
          resp |-> WithText(ErrResp("process_document", d, "Processing failed"), t)]
    ELSE
      LET batchState == [present |-> TRUE, docId |-> d, totalPages |-> Len(pages),
                         processedPages |-> 0, totalChunks |-> 0,
                         pageGroupCount |-> Len(pageGroups)]
          S1 == [stored.S EXCEPT !.bstate[d] = batchState]
          S2 == DeleteOldChunks(S1, d)
          S3 == updateDocStatus(S2, d, "processing", Len(pages))
      IN  FirstBatch(processBatchAction(S3, d, load, cost, ex), t)

StoreAndStart(S0, d, t, pages, pageGroups, load, cost, ex) ==
  StartBatches(S0, d, t, pages, pageGroups, StoreGroups(S0, d, pageGroups, 0),
               load, cost, ex)

\* the pages are packed into groups, the groups stored
PackAndStore(S0, d, t, pages, load, cost, ex) ==
  StoreAndStart(S0, d, t, pages, PackGroups(pages), load, cost, ex)

processDocumentAction(S, d, t, load, cost, ex) ==
  IF d = NoId
    THEN [S |-> S, resp |-> ErrResp("process_document", d, "Document ID required")]
  ELSE IF ~S.docs[d].exists
    THEN [S |-> S, resp |-> ErrResp("process_document", d, "Document not found")]
  ELSE IF ~S.docs[d].linked
    THEN [S |-> S, resp |-> ErrResp("process_document", d, "No Drive file linked")]
  ELSE
    LET S0 == [S EXCEPT !.docs[d].status = "extracting"] IN
    IF t = NoFile
      THEN [S |-> updateDocStatus(S0, d, "error", 0),
            resp |-> ErrResp("process_document", d, "Drive file not found")]
    ELSE IF ExtractionFails(t)
      THEN [S |-> updateDocStatus(S0, d, "error", 0),
            resp |-> WithText(ErrResp("process_document", d, "Could not extract text"), t)]
    ELSE PackAndStore(S0, d, t, splitIntoPages(t), load, cost, ex)

(***************************************************************************)
(* getProcessStatus, embedChunksAction, deleteDocumentAction, handleQuery  *)
(***************************************************************************)
getProcessStatus(S, d) ==
  IF d = NoId THEN ErrResp("get_process_status", d, "Document ID required")
  ELSE IF ~S.bstate[d].present
    THEN IF S.docs[d].exists
           THEN [NoResp EXCEPT !.op = "get_process_status", !.doc = d, !.kind = "ok",
                               !.status = S.docs[d].status,
                               !.totalChunks = S.docs[d].pageCount]
           ELSE ErrResp("get_process_status", d, "Document not found")
  ELSE LET state == S.bstate[d] IN
       [NoResp EXCEPT !.op = "get_process_status", !.doc = d, !.kind = "ok",
                      !.status = IF state.processedPages >= state.totalPages
                                   THEN "indexed" ELSE "in_progress",
                      !.totalPages = state.totalPages,
                      !.pagesProcessed = state.processedPages,
                      !.totalChunks = state.totalChunks]

\* the scan over the Chunks sheet: i is the row, up tells whether the
\* embedding endpoints answer in this invocation
RECURSIVE EmbedLoop(_, _, _, _, _, _, _)
EmbedLoop(rows, d, i, elapsed, cost, up, acc) ==
  IF i > Len(rows) THEN acc
  ELSE IF rows[i].doc # d THEN EmbedLoop(rows, d, i + 1, elapsed, cost, up, acc)
  ELSE IF rows[i].emb
    THEN EmbedLoop(rows, d, i + 1, elapsed, cost, up, [acc EXCEPT !.skipped = @ + 1])
  ELSE IF elapsed > TIME_LIMIT_MS THEN acc
  ELSE LET acc2 == IF up THEN [acc EXCEPT !.rows[i].emb = TRUE, !.embedded = @ + 1]
                         ELSE acc
           nap  == IF acc2.embedded % 3 = 0 THEN RATE_LIMIT_SLEEP_MS ELSE 0
       IN  EmbedLoop(acc2.rows, d, i + 1, elapsed + cost + nap, cost, up, acc2)

EmbedResult_EveryRow(S, d, scan) ==
  [S |-> [S EXCEPT !.chunks = [i \in 1..Len(scan.rows) |-> [scan.rows[i] EXCEPT !.emb = TRUE]]],
   resp |-> [NoResp EXCEPT !.op = "embed_chunks", !.doc = d, !.kind = "ok",
                           !.status = IF scan.embedded > 0 THEN "partial" ELSE "indexed",
                           !.created = scan.embedded]]

\* the answer of embed_chunks after the scan
EmbedResult(S, d, scan) ==
  [S |-> [S EXCEPT !.chunks = scan.rows],
   resp |-> [NoResp EXCEPT !.op = "embed_chunks", !.doc = d, !.kind = "ok",
                           !.status = IF scan.embedded > 0 THEN "partial" ELSE "indexed",
                           !.created = scan.embedded]]

embedChunksAction(S, d, up, cost) ==
  IF d = NoId
    THEN [S |-> S, resp |-> ErrResp("embed_chunks", d, "Document ID required")]
    ELSE EmbedResult(S, d, EmbedLoop(S.chunks, d, 1, 0, cost, up,
                                     [rows |-> S.chunks, embedded |-> 0, skipped |-> 0]))

deleteDocumentAction(S, d) ==
  IF d = NoId
    THEN [S |-> S, resp |-> ErrResp("delete_document", d, "Document ID required")]
    ELSE [S |-> deleteRowById(deleteChunksByDocId(S, d), d),
          resp |-> [NoResp EXCEPT !.op = "delete_document", !.doc = d, !.kind = "ok",
                                  !.status = "deleted"]]

(***************************************************************************)
(* handleQuery: the chunk texts as strings                                 *)
(*                                                                         *)
(* A blob is a run of the letter x, so a chunk text is "[Page N]\n"        *)
(* followed by x's, or, for the later windows of a hard split, x's alone.  *)
(***************************************************************************)
\* the queries, by their lower-cased words
QueryTexts ==
  ("page" :> <<"page">>) @@ ("page xxx" :> <<"page", "xxx">>) @@ ("cable" :> <<"cable">>)

NoQuery == ""

\* queryLower.split(/\s+/)
SplitWords(q) == IF q = NoQuery THEN << "" >> ELSE QueryTexts[q]

WordLen(w) == IF w = "" THEN 0 ELSE IF w = "page" THEN 4 ELSE IF w = "xxx" THEN 3 ELSE 5

HasMarker(row) == row.text.k = 0

XCount(row) ==
  IF HasMarker(row) THEN row.text.len - MarkerLen(row.pageNumber) ELSE row.text.len

\* contentLower.split(word).length - 1
Occurrences(row, w) ==
  IF w = "page" THEN (IF HasMarker(row) THEN 1 ELSE 0)
  ELSE IF w = "xxx" THEN XCount(row) \div 3
  ELSE 0

\* contentLower.indexOf(word), for a word that occurs
IndexOfWord(row, w) ==
  IF w = "page" THEN 1
  ELSE IF HasMarker(row) THEN MarkerLen(row.pageNumber) ELSE 0

\* contentLower.includes(s) for a string of words joined by blanks: the only
\* blank of a chunk text stands before the page number
IncludesWords(row, ws) ==
  IF ws = << "" >> THEN TRUE
  ELSE IF Len(ws) = 1 THEN Occurrences(row, ws[1]) > 0
  ELSE FALSE

(***************************************************************************)
(* keywordScore and cosineSimilarity, in units of 1/ScoreUnit              *)
(***************************************************************************)
ScoreUnit == 60000

PHRASE_SCORE == ScoreUnit \div 2
WORD_SCORE == ScoreUnit \div 10
FREQUENCY_BONUS == (3 * ScoreUnit) \div 100
FREQUENCY_CAP == 5
COVERAGE_SCORE == (2 * ScoreUnit) \div 10
BIGRAM_SCORE == (15 * ScoreUnit) \div 100
PROXIMITY_SCORE == ScoreUnit \div 10
WIDE_SPAN == 200
NARROW_SPAN == 100
MIN_WORD_LEN == 2

Min2(a, b) == IF a < b THEN a ELSE b

RECURSIVE WordScore(_, _, _)
WordScore(row, queryWords, j) ==
  IF j > Len(queryWords) THEN [score |-> 0, matched |-> 0]
  ELSE LET rest  == WordScore(row, queryWords, j + 1)
           count == Occurrences(row, queryWords[j])
       IN  IF count = 0 THEN rest
           ELSE [score   |-> rest.score + WORD_SCORE
                               + (IF count > 1
                                    THEN FREQUENCY_BONUS * Min2(count - 1, FREQUENCY_CAP)
                                    ELSE 0),
                 matched |-> rest.matched + 1]

RECURSIVE BigramScore(_, _, _)
BigramScore(row, queryWords, j) ==
  IF j >= Len(queryWords) THEN 0
  ELSE (IF IncludesWords(row, << queryWords[j], queryWords[j + 1] >>)
          THEN BIGRAM_SCORE ELSE 0)
       + BigramScore(row, queryWords, j + 1)

\* positions of the query words that occur, and the span they cover
Positions(row, queryWords) ==
  { IndexOfWord(row, queryWords[j]) :
      j \in { i \in 1..Len(queryWords) : Occurrences(row, queryWords[i]) > 0 } }

SetMax(P) == CHOOSE x \in P : \A y \in P : y <= x
SetMin(P) == CHOOSE x \in P : \A y \in P : x <= y

ProximityScore(row, queryWords, matched) ==
  IF matched >= 2
    THEN LET span == SetMax(Positions(row, queryWords)) - SetMin(Positions(row, queryWords))
         IN  (IF span < WIDE_SPAN THEN PROXIMITY_SCORE ELSE 0)
             + (IF span < NARROW_SPAN THEN PROXIMITY_SCORE ELSE 0)
    ELSE 0

KeywordTotal(row, queryWords, fullQuery, words) ==
  (IF IncludesWords(row, SplitWords(fullQuery)) THEN PHRASE_SCORE ELSE 0)
  + words.score
  + (IF Len(queryWords) > 0
       THEN (words.matched * COVERAGE_SCORE) \div Len(queryWords) ELSE 0)
  + BigramScore(row, queryWords, 1)
  + ProximityScore(row, queryWords, words.matched)

keywordScore(row, queryWords, fullQuery) ==
  Min2(KeywordTotal(row, queryWords, fullQuery, WordScore(row, queryWords, 1)), ScoreUnit)

\* the vectors the embedding endpoint answers with
EmbeddingOfChunk(row) ==
  IF ~HasMarker(row) THEN <<1, 0>>
  ELSE IF row.text.src # "block" THEN <<3, 4>>
  ELSE IF row.text.idx = 1 THEN <<312, 25>> ELSE <<364, 27>>

RECURSIVE Dot(_, _)
Dot(a, b) == IF a = <<>> THEN 0 ELSE Head(a) * Head(b) + Dot(Tail(a), Tail(b))

\* Math.sqrt on the norms of the vectors above, which are squares
Sqrt(n) == CHOOSE r \in 0..n : r * r = n

cosineSimilarity(a, b) ==
  IF Len(a) # Len(b) THEN 0
  ELSE LET denom == Sqrt(Dot(a, a)) * Sqrt(Dot(b, b))
       IN  IF denom = 0 THEN 0 ELSE (Dot(a, b) * ScoreUnit) \div denom

(***************************************************************************)
(* The providers of a query, and the request                               *)
(***************************************************************************)
\* the vectors the embedding provider answers a query with
QueryVectors ==
  ("ok" :> <<1, 0>>) @@ ("wide" :> <<1, 0, 0>>) @@ ("opposed" :> <<-1, 0>>)

getGeminiEmbedding_NeverEmpty(emb) == IF emb = "down" THEN <<1, 0>> ELSE QueryVectors[emb]

\* getGeminiEmbedding: every endpoint failing is answered by the empty vector
getGeminiEmbedding(emb) == IF emb = "down" THEN <<>> ELSE QueryVectors[emb]

DefaultRouting == [intent |-> "TEXT_ANSWER", expandedKeywords |-> <<>>, isArray |-> TRUE]

\* agentRouter: no answer, a text that is no JSON and the JSON null fall back
\* to the default; an object is returned as the provider shaped it
agentRouter(router) ==
  IF router = "plain"
    THEN [intent |-> "TEXT_ANSWER", expandedKeywords |-> << "cable" >>, isArray |-> TRUE]
  ELSE IF router = "string"
    THEN [intent |-> "TEXT_ANSWER", expandedKeywords |-> << "cable" >>, isArray |-> FALSE]
  ELSE DefaultRouting

RECURSIVE Unique(_, _)
Unique(ws, acc) ==
  IF ws = <<>> THEN acc
  ELSE Unique(Tail(ws), IF \E i \in 1..Len(acc) : acc[i] = Head(ws)
                          THEN acc ELSE Append(acc, Head(ws)))

LongWord(w) == WordLen(w) > MIN_WORD_LEN

QueryWords(q, routing) ==
  SelectSeq(Unique(SplitWords(q) \o routing.expandedKeywords, <<>>), LongWord)

\* the characters of the panel and voltage strings and of the filters
Chars ==
  ("" :> <<>>) @@ ("MDB-1" :> <<"M", "D", "B", "-", "1">>) @@ ("mdb" :> <<"m", "d", "b">>)
  @@ ("LV" :> <<"L", "V">>) @@ ("11kV" :> <<"1", "1", "k", "V">>)
  @@ ("11" :> <<"1", "1">>) @@ ("33" :> <<"3", "3">>)

UpperChar(c) ==
  IF c = "m" THEN "M" ELSE IF c = "d" THEN "D" ELSE IF c = "b" THEN "B"
  ELSE IF c = "k" THEN "K" ELSE c

toUpperCase(cs) == [i \in 1..Len(cs) |-> UpperChar(cs[i])]

\* String.prototype.indexOf(sub) # -1
Contains(cs, sub) ==
  \E i \in 0..(Len(cs) - Len(sub)) : \A j \in 1..Len(sub) : cs[i + j] = sub[j]

PassesFilter(value, filter) ==
  filter = "" \/ Contains(toUpperCase(Chars[value]), toUpperCase(Chars[filter]))

NoFolder == ""

TargetDocIds_FolderFirst(S, req) ==
  IF req.folderId # NoFolder
    THEN [all |-> FALSE,
          ids |-> {d \in DocIds : S.docs[d].exists /\ S.docs[d].folder = req.folderId}]
  ELSE IF req.documentId # NoId THEN [all |-> FALSE, ids |-> {req.documentId}]
  ELSE [all |-> TRUE, ids |-> {}]

\* targetDocIds: null is modelled by all = TRUE
TargetDocIds(S, req) ==
  IF req.documentId # NoId THEN [all |-> FALSE, ids |-> {req.documentId}]
  ELSE IF req.folderId # NoFolder
    THEN [all |-> FALSE,
          ids |-> {d \in DocIds : S.docs[d].exists /\ S.docs[d].folder = req.folderId}]
  ELSE [all |-> TRUE, ids |-> {}]

Selected(S, req, row) ==
  LET target == TargetDocIds(S, req) IN
  /\ target.all \/ row.doc \in target.ids
  /\ PassesFilter(row.panel, req.filterPanel)
  /\ PassesFilter(row.voltage, req.filterVoltage)

(***************************************************************************)
(* Scoring, ranking and re-ranking                                         *)
(***************************************************************************)
SCORE_FLOOR == ScoreUnit \div 100
CANDIDATE_LIMIT == 20
DEFAULT_MATCH_COUNT == 8
EMB_WEIGHT == 6
KW_WEIGHT == 4
RERANK_STEP == 50

\* Math.round(hybridScore * 1000) / 1000, in thousandths
Rounded(h) == (h * 1000 + (ScoreUnit \div 2)) \div ScoreUnit

\* hasEmbeddings ? (embScore * 0.6 + kwScore * 0.4) : kwScore
HybridScore(hasEmbeddings, embScore, kwScore) ==
  IF hasEmbeddings
    THEN (embScore * EMB_WEIGHT + kwScore * KW_WEIGHT) \div 10
    ELSE kwScore

\* the score of the row at position i of the Chunks sheet
ScoreRow(row, i, queryEmb, queryWords, fullQuery) ==
  LET hasEmbeddings == Len(queryEmb) > 0
      chunkEmb == IF row.emb THEN EmbeddingOfChunk(row) ELSE <<>>
      usable   == Len(chunkEmb) > 0 /\ Len(chunkEmb) = Len(queryEmb)
      kwScore  == keywordScore(row, queryWords, fullQuery)
      embScore == IF hasEmbeddings /\ usable THEN cosineSimilarity(queryEmb, chunkEmb) ELSE 0
      hybrid   == HybridScore(hasEmbeddings, embScore, kwScore)
  IN  [id |-> i, doc |-> row.doc, similarity |-> Rounded(hybrid),
       kw |-> kwScore, hybrid |-> hybrid, usable |-> usable]

\* the scoring loop: the scores of the rows that pass the filters, in row
\* order, before the floor
RECURSIVE ScoreAll(_, _, _, _, _, _)
ScoreAll(S, req, i, queryEmb, queryWords, acc) ==
  IF i > Len(S.chunks) THEN acc
  ELSE IF ~Selected(S, req, S.chunks[i])
    THEN ScoreAll(S, req, i + 1, queryEmb, queryWords, acc)
  ELSE ScoreAll(S, req, i + 1, queryEmb, queryWords,
                Append(acc, ScoreRow(S.chunks[i], i, queryEmb, queryWords, req.query)))

\* if (hybridScore > 0.01) allScored.push(...)
AboveFloor(sc) == sc.hybrid > SCORE_FLOOR

\* allScored.sort((a, b) => b.similarity - a.similarity): a stable sort
RECURSIVE InsertSorted(_, _)
InsertSorted(sorted, x) ==
  IF sorted = <<>> THEN << x >>
  ELSE IF Head(sorted).similarity >= x.similarity
    THEN << Head(sorted) >> \o InsertSorted(Tail(sorted), x)
    ELSE << x >> \o sorted

RECURSIVE SortBySimilarity(_, _)
SortBySimilarity(xs, acc) ==
  IF xs = <<>> THEN acc ELSE SortBySimilarity(Tail(xs), InsertSorted(acc, Head(xs)))

Slice(xs, n) == SubSeq(xs, 1, Min2(Len(xs), n))

\* parseInt(data.matchCount) || 8
MatchCount(req) == IF req.matchCount = 0 THEN DEFAULT_MATCH_COUNT ELSE req.matchCount

\* The answers of the re-rank provider.  An index list holds the numbers
\* doubled, so that 3 stands for the index 1.5.
RerankLists == { <<4, 0, 2>>, <<0, 0, 2>>, <<40, 2>>, <<2, 3, 0>>, <<>> }
RerankFailures == {"down", "nonjson", "object"}

RerankAnswers ==
  {[kind |-> k, indices |-> <<>>] : k \in RerankFailures}
    \cup {[kind |-> "array", indices |-> l] : l \in RerankLists}

\* typeof idx === "number" && idx >= 0 && idx < candidates.length
IsValidIndex(idx, candidates) == idx >= 0 /\ idx < 2 * Len(candidates)

\* the loop over the indices: candidates are objects, so a candidate picked
\* twice carries the similarity written last; picked holds positions
RECURSIVE RerankLoop(_, _, _, _, _)
RerankLoop(indices, j, candidates, picked, topN) ==
  IF j > Len(indices) THEN [candidates |-> candidates, picked |-> picked, thrown |-> FALSE]
  ELSE IF ~IsValidIndex(indices[j], candidates)
    THEN RerankLoop(indices, j + 1, candidates, picked, topN)
  ELSE IF indices[j] % 2 # 0
    \* candidates[1.5] is undefined: the assignment throws
    THEN [candidates |-> candidates, picked |-> picked, thrown |-> TRUE]
  ELSE LET pos  == (indices[j] \div 2) + 1
           cs2  == [candidates EXCEPT ![pos].similarity = 1000 - Len(picked) * RERANK_STEP]
           pk2  == Append(picked, pos)
       IN  IF Len(pk2) >= topN
             THEN [candidates |-> cs2, picked |-> pk2, thrown |-> FALSE]
             ELSE RerankLoop(indices, j + 1, cs2, pk2, topN)

RerankResult(loop, topN) ==
  IF ~loop.thrown /\ Len(loop.picked) > 0
    THEN [i \in 1..Len(loop.picked) |-> loop.candidates[loop.picked[i]]]
    ELSE Slice(loop.candidates, topN)

geminiRerank_ShortFallback(rerank, candidates, topN) == Slice(candidates, topN - 1)

geminiRerank(rerank, candidates, topN) ==
  IF rerank.kind \in RerankFailures THEN Slice(candidates, topN)
  ELSE RerankResult(RerankLoop(rerank.indices, 1, candidates, <<>>, topN), topN)

TopMatches(rerank, candidates, matchCount) ==
  IF Len(candidates) > matchCount
    THEN geminiRerank(rerank, candidates, matchCount)
    ELSE Slice(candidates, matchCount)

\* "Unable to generate answer. All models failed."
DraftFailure == "Unable to generate answer"

\* generateAnswer: the text of the drafting provider, or the failure message
generateAnswer(draft) == IF draft = "ok" THEN "draft" ELSE DraftFailure

verificationAgent_Always(initialAnswer, outputType, verify) ==
  IF verify = "ok" THEN [answer |-> "verified", called |-> TRUE]
  ELSE [answer |-> initialAnswer, called |-> TRUE]

\* verificationAgent: no call for a schematic; otherwise res || initialAnswer,
\* where the provider answers a text of its own ("ok"), the initial answer as
\* it is ("echo"), or nothing
verificationAgent(initialAnswer, outputType, verify) ==
  IF outputType = "schematic" THEN [answer |-> initialAnswer, called |-> FALSE]
  ELSE IF verify = "ok" THEN [answer |-> "verified", called |-> TRUE]
  ELSE [answer |-> initialAnswer, called |-> TRUE]

\* step 6 of handleQuery: the answer and whether the verifier was called
Answer(topMatches, req, draft, verify) ==
  IF Len(topMatches) = 0
    THEN [answer |-> "No relevant documents found", called |-> FALSE]
    ELSE verificationAgent(generateAnswer(draft), req.outputType, verify)

QueryAnswer(S, n, req, env, scored, ranked, topMatches) ==
  [logs |-> IF env.logOk THEN n + 1 ELSE n,
   resp |-> [NoResp EXCEPT !.op = "query", !.kind = "ok", !.hasQuery = req.query # NoQuery,
               !.q = [searchMode |-> IF Len(getGeminiEmbedding(env.emb)) > 0
                                      THEN "hybrid" ELSE "keyword",
                      answer |-> Answer(topMatches, req, env.draft, env.verify).answer,
                      verifyCalled |-> Answer(topMatches, req, env.draft, env.verify).called,
                      draft |-> env.draft, verify |-> env.verify,
                      scored |-> scored, ranked |-> ranked, matches |-> topMatches,
                      rerank |-> env.rerank,
                      usedRerank |-> Len(Slice(ranked, CANDIDATE_LIMIT)) > MatchCount(req),
                      k |-> MatchCount(req), req |-> req, emb |-> env.emb,
                      logOk |-> env.logOk]]]

QueryRanked(S, n, req, env, scored, ranked) ==
  QueryAnswer(S, n, req, env, scored, ranked,
              TopMatches(env.rerank, Slice(ranked, CANDIDATE_LIMIT), MatchCount(req)))

\* steps 3 and 4: the rows above the floor are kept and sorted
QueryScored(S, n, req, env, scored) ==
  QueryRanked(S, n, req, env, scored, SortBySimilarity(SelectSeq(scored, AboveFloor), <<>>))

QueryRouted(S, n, req, env, routing) ==
  IF ~routing.isArray
    \* routing.expandedKeywords.join is not a function: caught by doPost
    THEN [logs |-> n,
          resp |-> [ErrResp("query", NoId, "join is not a function")
                      EXCEPT !.hasQuery = req.query # NoQuery,
                             !.q = [NoQ EXCEPT !.req = req, !.logOk = env.logOk]]]
    ELSE QueryScored(S, n, req, env,
                     ScoreAll(S, req, 1, getGeminiEmbedding(env.emb),
                              QueryWords(req.query, routing), <<>>))

QueryPipeline(S, n, req, env) ==
  IF Len(S.chunks) = 0
    THEN [logs |-> n,
          resp |-> [ErrResp("query", NoId, "No documents have been processed yet")
                      EXCEPT !.hasQuery = req.query # NoQuery,
                             !.q = [NoQ EXCEPT !.req = req, !.logOk = env.logOk]]]
    ELSE QueryRouted(S, n, req, env, agentRouter(env.router))

handleQuery_Unchecked(S, n, req, env) == QueryPipeline(S, n, req, env)

\* the effect of a query on the stores: one QueryLogs row, written best-effort
handleQuery(S, n, req, env) ==
  IF req.query = NoQuery
    THEN [logs |-> n, resp |-> ErrResp("query", NoId, "Query required")]
    ELSE QueryPipeline(S, n, req, env)

(***************************************************************************)
(* Inputs of the environment                                               *)
(***************************************************************************)
\* time from the start of an invocation to its first guard check
StartDelays == {50}
\* time one page (or one embedding) takes during an invocation: ten pages
\* or one page fit into the budget
TenPageCost == (TIME_LIMIT_MS \div 10) + 1
OnePageCost == TIME_LIMIT_MS + 1
PageCosts == {TenPageCost, OnePageCost}
EmbedCosts == {TIME_LIMIT_MS \div 300}
ScenarioPages == Len(TextBlobs["book"])
ScenarioCost == TenPageCost

RequestIds == DocIds \cup {NoId}

\* the extraction provider not answering
ProviderDown == {"down"}

\* query requests: one parameter differs from a plain query for two matches,
\* or a document and the folder of the other document are both given
BaseRequest == [NoRequest EXCEPT !.query = "page", !.matchCount = 2]

RequestSpace ==
  [query : {NoQuery, "page", "page xxx", "cable"}, documentId : {NoId, "d1"},
   folderId : {NoFolder, "f1", "f2", "f9"}, filterPanel : {"", "mdb", "LV"},
   filterVoltage : {"", "11", "33"}, matchCount : {0, 2},
   outputType : {"", "schematic"}]

Differences(r, base) == Cardinality({f \in DOMAIN r : r[f] # base[f]})

Requests ==
  {r \in RequestSpace : Differences(r, BaseRequest) <= 1}
    \cup {[BaseRequest EXCEPT !.documentId = "d1", !.folderId = "f2"]}

PlainRequests == {BaseRequest, NoRequest}

\* the providers during one query: at most one differs from the answering ones
BaseProviders ==
  [emb |-> "ok", router |-> "plain",
   rerank |-> [kind |-> "array", indices |-> <<4, 0, 2>>], draft |-> "ok",
   verify |-> "ok", logOk |-> TRUE]

ProviderSpace ==
  [emb : {"down"} \cup DOMAIN QueryVectors, router : {"plain", "down", "nonjson", "null", "string"},
   rerank : RerankAnswers, draft : {"ok", "down"},
   verify : {"ok", "echo", "down"}, logOk : BOOLEAN]

Providers == {e \in ProviderSpace : Differences(e, BaseProviders) <= 1}

\* every provider down
PlainProviders ==
  {e \in ProviderSpace : e.emb = "down" /\ e.router = "down" /\ e.rerank.kind = "down"
                          /\ e.draft = "down" /\ e.verify = "down"}

(***************************************************************************)
(* The record of the steps of one ingestion (history)                      *)
(***************************************************************************)
HistEntry(r, cost, S) ==
  [cost |-> cost, pagesProcessed |-> r.pagesProcessed, status |-> r.status,
   created |-> r.created, totalChunks |-> r.totalChunks,
   docStatus |-> S.docs[r.doc].status,
   persisted |-> IF S.bstate[r.doc].present THEN S.bstate[r.doc].processedPages ELSE -1,
   rowCount |-> LET Mine(row) == row.doc = r.doc IN Len(SelectSeq(S.chunks, Mine))]

\* the ingestion a document is in: the text process_document started it
\* with, and whether the document had chunks then
NoRun == [text |-> "", hadChunks |-> FALSE]

RowsOf(rows, d) == LET Mine(row) == row.doc = d IN SelectSeq(rows, Mine)

(***************************************************************************)
(* Actions: one invocation of the web app each                             *)
(***************************************************************************)
Commit(S) ==
  /\ docs' = S.docs
  /\ bstate' = S.bstate
  /\ bpages' = S.bpages
  /\ chunks' = S.chunks

ProcessDocument(d, t, cost, ex) ==
  \E load \in StartDelays :
    \E out \in {processDocumentAction(Store, d, t, load, cost, ex)} :
    /\ Commit(out.S)
    /\ resp' = out.resp
    /\ hist' = IF d = NoId \/ out.resp.err \in {"Document not found", "No Drive file linked"}
                 THEN hist
               ELSE IF out.resp.kind = "ok" /\ out.resp.totalPages = ScenarioPages
                 THEN [hist EXCEPT ![d] = << HistEntry(out.resp, cost, out.S) >>]
               ELSE [hist EXCEPT ![d] = <<>>]
    /\ run' = IF d = NoId \/ out.resp.err \in {"Document not found", "No Drive file linked"}
                THEN run
              ELSE IF out.resp.kind = "ok"
                THEN [run EXCEPT ![d] = [text |-> t, hadChunks |-> RowsOf(chunks, d) # <<>>]]
              ELSE [run EXCEPT ![d] = NoRun]
    /\ UNCHANGED <<logs, drive>>

ProcessBatch(d, cost, ex) ==
  \E load \in StartDelays :
    \E out \in {processBatchAction(Store, d, load, cost, ex)} :
    /\ Commit(out.S)
    /\ resp' = out.resp
    /\ hist' = IF d # NoId /\ out.resp.kind = "ok" /\ hist[d] # <<>> /\ Len(hist[d]) < MaxHist
                 THEN [hist EXCEPT ![d] = Append(@, HistEntry(out.resp, cost, out.S))]
                 ELSE hist
    /\ UNCHANGED <<logs, drive, run>>

GetProcessStatus(d) ==
  /\ resp' = getProcessStatus(Store, d)
  /\ UNCHANGED <<docs, bstate, bpages, chunks, logs, drive, hist, run>>

EmbedChunks(d, up, cost) ==
  \E out \in {embedChunksAction(Store, d, up, cost)} :
  /\ Commit(out.S)
  /\ resp' = out.resp
  /\ UNCHANGED <<logs, drive, hist, run>>

DeleteDocument(d) ==
  \E out \in {deleteDocumentAction(Store, d)} :
  /\ Commit(out.S)
  /\ resp' = out.resp
  /\ hist' = IF d = NoId THEN hist ELSE [hist EXCEPT ![d] = <<>>]
  /\ run' = IF d = NoId THEN run ELSE [run EXCEPT ![d] = NoRun]
  /\ UNCHANGED <<logs, drive>>

Query(req, env) ==
  \E out \in {handleQuery(Store, logs, req, env)} :
  /\ out.logs <= MaxLogs
  /\ logs' = out.logs
  /\ resp' = out.resp
  /\ UNCHANGED <<docs, bstate, bpages, chunks, drive, hist, run>>

(***************************************************************************)
(* processDocumentBatch of the web client: one process_document call, then *)
(* process_batch while the result is in_progress and iterations are left   *)
(***************************************************************************)
IdleClient == [pc |-> "idle", doc |-> NoId, maxIterations |-> MAX_ITERATIONS, result |-> ""]

\* while (result.status === 'in_progress' && maxIterations > 0)
LoopContinues(status, maxIterations) == status = "in_progress" /\ maxIterations > 0

\* callBackend throws on an error payload; otherwise the payload is the
\* result, and the loop condition decides between another call and return
AfterCall(c, r, used) ==
  IF r.kind = "error" THEN [c EXCEPT !.pc = "thrown", !.result = ""]
  ELSE [c EXCEPT !.result = r.status,
                 !.maxIterations = @ - used,
                 !.pc = IF LoopContinues(r.status, c.maxIterations - used)
                          THEN "polling" ELSE "returned"]

ClientStart(d, t, cost, ex) ==
  /\ client.pc = "idle"
  /\ ProcessDocument(d, t, cost, ex)
  /\ client' = AfterCall([client EXCEPT !.doc = d], resp', 0)

ClientPoll(cost, ex) ==
  /\ client.pc = "polling"
  /\ ProcessBatch(client.doc, cost, ex)
  /\ client' = AfterCall(client, resp', 1)

(***************************************************************************)
(* callGemini: the generateContent endpoints in the order of the two       *)
(* loops, each answered by the network in one of five ways                 *)
(***************************************************************************)
GEMINI_MODELS == <<"gemini-2.0-flash", "gemini-1.5-flash", "gemini-1.5-pro">>

API_VERSIONS_BetaFirst == <<"v1beta", "v1">>

API_VERSIONS == <<"v1", "v1beta">>

Endpoints ==
  {<<GEMINI_MODELS[m], API_VERSIONS[v]>> : m \in DOMAIN GEMINI_MODELS, v \in DOMAIN API_VERSIONS}

\* what one fetch of an endpoint gives: status 200 with candidates, content
\* and parts ("text"); another status ("status"); an exception of the fetch
\* or of JSON.parse ("throws"); status 200 without candidates
\* ("nocandidates"); status 200 with a candidate that has no content
\* ("blocked")
FetchOutcomes == {"text", "status", "throws", "nocandidates", "blocked"}

NoError == <<"null", "">>
NullResult == [kind |-> "null", model |-> "", version |-> ""]

\* the configuration and the network a call meets, what it fetched in
\* order, what it returned, and the global globalContextError
NoCall ==
  [apiKey |-> FALSE, net |-> <<>>, returned |-> FALSE, fetched |-> <<>>,
   result |-> NullResult, globalContextError |-> NoError]

\* lastError after one fetch: set for a status other than 200 and in the
\* catch block, left alone by a 200 response that has no usable candidate
LastError(outcome, model, lastError) ==
  IF outcome = "status" THEN <<"Gemini error", model>>
  ELSE IF outcome = "throws" THEN <<"Fetch error", model>>
  ELSE lastError

RECURSIVE GeminiLoop(_, _, _, _, _)
GeminiLoop(call, m, v, fetched, lastError) ==
  IF m > Len(GEMINI_MODELS)
    THEN [call EXCEPT !.returned = TRUE, !.fetched = fetched, !.result = NullResult,
                      !.globalContextError = lastError]
  ELSE IF v > Len(API_VERSIONS) THEN GeminiLoop(call, m + 1, 1, fetched, lastError)
  ELSE IF call.net[<<GEMINI_MODELS[m], API_VERSIONS[v]>>] = "text"
    THEN [call EXCEPT !.returned = TRUE,
                      !.fetched = Append(fetched, <<GEMINI_MODELS[m], API_VERSIONS[v]>>),
                      !.result = [kind |-> "text", model |-> GEMINI_MODELS[m],
                                  version |-> API_VERSIONS[v]]]
  ELSE GeminiLoop(call, m, v + 1,
                  Append(fetched, <<GEMINI_MODELS[m], API_VERSIONS[v]>>),
                  LastError(call.net[<<GEMINI_MODELS[m], API_VERSIONS[v]>>],
                            GEMINI_MODELS[m], lastError))

callGemini(call) ==
  IF ~call.apiKey THEN [call EXCEPT !.returned = TRUE, !.result = NullResult]
  ELSE GeminiLoop(call, 1, 1, <<>>, NoError)

\* one text handed to the fixed-size-window strategy: its length, the
\* positions of its newlines, and the windows cut
NoWindows == [len |-> 0, nl |-> {}, done |-> FALSE, pages |-> <<>>]

SplitWindows ==
  /\ ~windows.done
  /\ windows' = [windows EXCEPT !.done = TRUE,
                                !.pages = FixedWindows(windows.len, windows.nl)]
  /\ UNCHANGED <<docs, bstate, bpages, chunks, logs, drive, resp, hist, run, client, llm, flight>>

CallGemini ==
  /\ ~llm.returned
  /\ llm' = callGemini(llm)
  /\ UNCHANGED <<docs, bstate, bpages, chunks, logs, drive, resp, hist, run, client, windows, flight>>

(***************************************************************************)
(* deleteFolderAction                                                      *)
(***************************************************************************)
InFolder(S, d, f) == d \in DocIds /\ S.docs[d].exists /\ S.docs[d].folder = f

\* the documents of the folder lose their chunks and their rows
deleteFolderAction(S, f) ==
  IF f = NoFolder
    THEN [S |-> S, resp |-> ErrResp("delete_folder", NoId, "Folder ID required")]
    ELSE LET Kept(row) == ~InFolder(S, row.doc, f)
         IN  [S |-> [S EXCEPT !.chunks = SelectSeq(S.chunks, Kept),
                              !.docs = [d \in DocIds |-> IF InFolder(S, d, f)
                                                          THEN NoDoc ELSE S.docs[d]]],
              resp |-> [NoResp EXCEPT !.op = "delete_folder", !.kind = "ok",
                                      !.status = "deleted"]]

DeleteFolder(f) ==
  \E out \in {deleteFolderAction(Store, f)} :
  /\ Commit(out.S)
  /\ resp' = out.resp
  /\ UNCHANGED <<logs, drive, hist, run>>

(***************************************************************************)
(* One invocation in flight while others run: the web app serves requests  *)
(* concurrently and the handlers take no lock.  A process_batch in flight   *)
(* has loaded the state record and the pages; an embed_chunks in flight has *)
(* read the Chunks sheet.  The other invocations run between its steps.    *)
(***************************************************************************)
\* doc, state, allPages and rows are what the invocation read; overlapped
\* tells that a process_document or process_batch of the same document ran
\* since; written holds the sheet rows an embed_chunks wrote to; killed
\* holds the documents a batch step of which was killed since their last
\* process_document
NoFlight ==
  [pc |-> "idle", op |-> "", doc |-> NoId, state |-> NoState, allPages |-> <<>>,
   rows |-> <<>>, overlapped |-> FALSE, written |-> {}, killed |-> {}]

Landed(f) == f.pc \in {"idle", "done"}

\* const stateStr = props.getProperty(stateKey) and the page groups
BatchLoad(d) ==
  /\ Landed(flight)
  /\ bstate[d].present
  /\ Len(LoadPages(Store, bstate[d], 0, <<>>)) > 0
  /\ flight' = [NoFlight EXCEPT !.pc = "loaded", !.op = "process_batch", !.doc = d,
                                !.state = bstate[d],
                                !.allPages = LoadPages(Store, bstate[d], 0, <<>>),
                                !.killed = flight.killed]
  /\ UNCHANGED <<docs, bstate, bpages, chunks, logs, drive, resp, hist, run, client, llm,
                 windows>>

\* the page loop and the step after it, on the state and the pages loaded
BatchFinish(cost, ex) ==
  /\ flight.pc = "loaded"
  /\ \E load \in StartDelays :
       \E out \in {RunBatch(Store, flight.doc, flight.state, flight.allPages,
                            load, cost, ex)} :
         /\ Len(out.S.chunks) <= MaxRows
         /\ Commit(out.S)
         /\ resp' = out.resp
  /\ flight' = [flight EXCEPT !.pc = "done"]
  /\ UNCHANGED <<logs, drive, hist, run, client, llm, windows>>

\* the invocation ends after the page loop appended its rows and before the
\* state is saved: an exception of setProperty, or the execution time limit
\* of the host
BatchKilled(cost, ex) ==
  /\ flight.pc = "loaded"
  /\ \E load \in StartDelays :
       \E loop \in {BatchLoop(flight.state.docId, flight.allPages, FirstPage(flight.state),
                              load, cost, ex, EmptyLoop)} :
         /\ Len(chunks) + Len(loop.rows) <= MaxRows
         /\ chunks' = chunks \o loop.rows
  /\ resp' = ErrResp("process_batch", flight.doc, "killed")
  /\ flight' = [NoFlight EXCEPT !.killed = flight.killed \cup {flight.doc}]
  /\ UNCHANGED <<docs, bstate, bpages, logs, drive, hist, run, client, llm, windows>>

\* const chunkData = chunkSheet.getDataRange().getValues()
EmbedRead(d) ==
  /\ Landed(flight)
  /\ flight' = [NoFlight EXCEPT !.pc = "scanned", !.op = "embed_chunks", !.doc = d,
                                !.rows = chunks, !.killed = flight.killed]
  /\ UNCHANGED <<docs, bstate, bpages, chunks, logs, drive, resp, hist, run, client, llm,
                 windows>>

\* the rows of the scan that got an embedding
Written(rows, scan) ==
  {i \in 1..Len(rows) : scan.rows[i].emb /\ ~rows[i].emb}

BlankRow ==
  [doc |-> NoId, text |-> [src |-> "", idx |-> 0, k |-> 0, len |-> 0], pageNumber |-> 0,
   panel |-> "", voltage |-> "", emb |-> FALSE]

\* chunkSheet.getRange(i + 1, 9).setValue(...) on the sheet as it is now: the
\* cell of row i, whatever row that is by now; the grid has spare rows, so a
\* cell below the last row is written too
WriteEmbeddings(sheet, written) ==
  [i \in 1..SetMax(written \cup {Len(sheet)}) |->
     IF i <= Len(sheet)
       THEN [sheet[i] EXCEPT !.emb = @ \/ i \in written]
       ELSE [BlankRow EXCEPT !.emb = i \in written]]

EmbedScan(rows, d, up, cost) ==
  EmbedLoop(rows, d, 1, 0, cost, up, [rows |-> rows, embedded |-> 0, skipped |-> 0])

\* the scan over the rows read, its writes landing on the sheet of now
EmbedWrite(up, cost) ==
  /\ flight.pc = "scanned"
  /\ Len(flight.rows) <= MaxRows
  /\ chunks' = WriteEmbeddings(chunks, Written(flight.rows,
                                               EmbedScan(flight.rows, flight.doc, up, cost)))
  /\ resp' = EmbedResult(Store, flight.doc,
                         EmbedScan(flight.rows, flight.doc, up, cost)).resp
  /\ flight' = [flight EXCEPT !.pc = "done",
                              !.written = Written(flight.rows,
                                                  EmbedScan(flight.rows, flight.doc, up, cost))]
  /\ UNCHANGED <<docs, bstate, bpages, logs, drive, hist, run, client, llm, windows>>

\* what an invocation that ran as a whole means for the one in flight
FlightAfter(f, op, d, r) ==
  [f EXCEPT !.overlapped = @ \/ (f.pc = "loaded" /\ f.doc = d),
            !.killed = IF op = "process_document" /\ r.kind = "ok" THEN @ \ {d} ELSE @]

(***************************************************************************)
(* Specifications                                                          *)
(***************************************************************************)
FreshDoc ==
  [exists |-> TRUE, linked |-> TRUE, status |-> "uploaded", pageCount |-> 0, folder |-> "f1"]

MainTexts == {"empty", "short", "tiny", "memo"}
GroupTexts == {"stubs", "wide", "huge", "block", "long"}

InitStores ==
  /\ bstate = [d \in DocIds |-> NoState]
  /\ bpages = [d \in DocIds |-> NoGroups]
  /\ chunks = <<>>
  /\ logs = 0
  /\ resp = NoResp
  /\ hist = [d \in DocIds |-> <<>>]
  /\ run = [d \in DocIds |-> NoRun]
  /\ client = IdleClient

\* the stores of a specification that calls no web-app action
InitIdle ==
  /\ InitStores
  /\ docs = [d \in DocIds |-> FreshDoc]
  /\ drive = [d \in DocIds |-> {"note"}]

\* two synced documents
Init ==
  /\ InitStores
  /\ llm = NoCall /\ windows = NoWindows /\ flight = NoFlight
  /\ docs = [d \in DocIds |-> FreshDoc]
  /\ drive = [d \in DocIds |-> IF d = "d1" THEN MainTexts ELSE {"note"}]

\* one synced document whose text needs several page groups, or one group
\* that the property store refuses; and one without a Drive link
InitGroups ==
  /\ InitStores
  /\ llm = NoCall /\ windows = NoWindows /\ flight = NoFlight
  /\ docs = [d \in DocIds |-> IF d = "d1" THEN FreshDoc ELSE [FreshDoc EXCEPT !.linked = FALSE]]
  /\ drive = [d \in DocIds |-> IF d = "d1" THEN GroupTexts ELSE {"empty"}]

\* one synced document of 25 pages, and one without a Drive link
InitResume ==
  /\ InitStores
  /\ llm = NoCall /\ windows = NoWindows /\ flight = NoFlight
  /\ docs = [d \in DocIds |-> IF d = "d1" THEN FreshDoc ELSE [FreshDoc EXCEPT !.linked = FALSE]]
  /\ drive = [d \in DocIds |-> IF d = "d1" THEN {"book"} ELSE {"empty"}]

Next ==
  \/ \E d \in RequestIds, cost \in PageCosts :
       \E t \in (IF d = NoId THEN {NoFile} ELSE drive[d] \cup {NoFile}) :
         \E ex \in ProviderDown : ProcessDocument(d, t, cost, ex) /\ UNCHANGED <<client, fnVars>>
  \/ \E d \in RequestIds, cost \in PageCosts, ex \in ProviderDown :
       ProcessBatch(d, cost, ex) /\ UNCHANGED <<client, fnVars>>
  \/ \E d \in RequestIds : GetProcessStatus(d) /\ UNCHANGED <<client, fnVars>>
  \/ \E d \in RequestIds, up \in BOOLEAN, cost \in EmbedCosts :
       EmbedChunks(d, up, cost) /\ UNCHANGED <<client, fnVars>>
  \/ \E d \in RequestIds : DeleteDocument(d) /\ UNCHANGED <<client, fnVars>>
  \/ \E req \in PlainRequests, env \in PlainProviders : Query(req, env) /\ UNCHANGED <<client, fnVars>>

Spec == Init /\ [][Next]_vars

\* the invocations of the ingestion state machine alone
NextIngest ==
  \/ \E d \in RequestIds, cost \in PageCosts :
       \E t \in (IF d = NoId THEN {NoFile} ELSE drive[d] \cup {NoFile}) :
         \E ex \in ProviderDown : ProcessDocument(d, t, cost, ex) /\ UNCHANGED <<client, fnVars>>
  \/ \E d \in RequestIds, cost \in PageCosts, ex \in ProviderDown :
       ProcessBatch(d, cost, ex) /\ UNCHANGED <<client, fnVars>>
  \/ \E d \in RequestIds : GetProcessStatus(d) /\ UNCHANGED <<client, fnVars>>
  \/ \E d \in RequestIds : DeleteDocument(d) /\ UNCHANGED <<client, fnVars>>

SpecGroups == InitGroups /\ [][NextIngest]_vars

SpecResume == InitResume /\ [][NextIngest]_vars

\* two documents in two folders, ingested in one step each, then searched
InitQuery ==
  /\ InitStores
  /\ llm = NoCall /\ windows = NoWindows /\ flight = NoFlight
  /\ docs = [d \in DocIds |-> IF d = "d1" THEN FreshDoc ELSE [FreshDoc EXCEPT !.folder = "f2"]]
  /\ drive = [d \in DocIds |-> IF d = "d1" THEN {"block"} ELSE {"note"}]

NextQuery ==
  \/ \E d \in DocIds, ex \in Extractions :
       \E t \in drive[d] : ProcessDocument(d, t, TenPageCost, ex) /\ UNCHANGED <<client, fnVars>>
  \/ \E d \in DocIds, up \in BOOLEAN, cost \in EmbedCosts :
       EmbedChunks(d, up, cost) /\ UNCHANGED <<client, fnVars>>
  \/ \E req \in Requests, env \in Providers :
       (req = BaseRequest \/ env = BaseProviders) /\ Query(req, env) /\ UNCHANGED <<client, fnVars>>

SpecQuery == InitQuery /\ [][NextQuery]_vars

\* one client run on a document of 25 or of 202 pages, or on a document
\* without a Drive link
InitClient ==
  /\ InitStores
  /\ llm = NoCall /\ windows = NoWindows /\ flight = NoFlight
  /\ docs = [d \in DocIds |-> IF d = "d1" THEN FreshDoc ELSE [FreshDoc EXCEPT !.linked = FALSE]]
  /\ drive = [d \in DocIds |-> IF d = "d1" THEN {"book", "tome"} ELSE {"empty"}]

NextClient ==
  \/ \E d \in DocIds, cost \in PageCosts, ex \in ProviderDown :
       \E t \in drive[d] : ClientStart(d, t, cost, ex) /\ UNCHANGED fnVars
  \/ \E cost \in PageCosts, ex \in ProviderDown : ClientPoll(cost, ex) /\ UNCHANGED fnVars

SpecClient == InitClient /\ [][NextClient]_vars

\* one call of callGemini, with or without an API key, under every way the
\* six endpoints can answer
InitGemini ==
  /\ InitIdle
  /\ windows = NoWindows /\ flight = NoFlight
  /\ \E k \in BOOLEAN, net \in [Endpoints -> FetchOutcomes] :
       llm = [NoCall EXCEPT !.apiKey = k, !.net = net]

NextGemini == CallGemini

SpecGemini == InitGemini /\ [][NextGemini]_vars

\* texts of more than 3000 characters with at most two newlines
WindowTextLens == {3001, 3500, 4100, 5000, 6000, 8200}
NewlinePositions == {1, 1700, 1800, 1900, 2000, 2100, 2199, 2200, 3800, 3900, 4000, 5700}

InitWindows ==
  /\ InitIdle
  /\ llm = NoCall /\ flight = NoFlight
  /\ \E len \in WindowTextLens :
       \E nl \in {x \in SUBSET {q \in NewlinePositions : q < len} : Cardinality(x) <= 2} :
         windows = [NoWindows EXCEPT !.len = len, !.nl = nl]

NextWindows == SplitWindows

SpecWindows == InitWindows /\ [][NextWindows]_vars

\* the store after process_document and process_batch ingested text t of
\* document d, each step fitting ten pages
Ingested(S, d, t) ==
  LET load == CHOOSE l \in StartDelays : TRUE
      ex == CHOOSE e \in ProviderDown : TRUE
  IN  processBatchAction(processDocumentAction(S, d, t, load, TenPageCost, ex).S,
                         d, load, TenPageCost, ex).S

\* the second document, in its own folder, is ingested: its chunk is the
\* first row of the sheet and its page groups are cleaned up; the first
\* document is synced and not ingested
OverlapStart ==
  Ingested([docs |-> [d \in DocIds |-> IF d = "d1" THEN FreshDoc
                                       ELSE [FreshDoc EXCEPT !.folder = "f2"]],
            bstate |-> [d \in DocIds |-> NoState],
            bpages |-> [d \in DocIds |-> NoGroups],
            chunks |-> <<>>], "d2", "note")

\* the documents that invocations ingest and embed while another is in flight
OverlapDocs == {"d1"}

InitOverlap ==
  /\ docs = OverlapStart.docs
  /\ bstate = OverlapStart.bstate
  /\ bpages = [d \in DocIds |-> NoGroups]
  /\ chunks = OverlapStart.chunks
  /\ logs = 0
  /\ resp = NoResp
  /\ hist = [d \in DocIds |-> <<>>]
  /\ run = [d \in DocIds |-> NoRun]
  /\ client = IdleClient
  /\ llm = NoCall /\ windows = NoWindows /\ flight = NoFlight
  /\ drive = [d \in DocIds |-> IF d = "d1" THEN {"memo"} ELSE {"note"}]

NextOverlap ==
  \/ \E d \in OverlapDocs, cost \in PageCosts, ex \in ProviderDown :
       \E t \in drive[d] :
         /\ ProcessDocument(d, t, cost, ex)
         /\ flight' = FlightAfter(flight, "process_document", d, resp')
         /\ UNCHANGED <<client, llm, windows>>
  \/ \E d \in OverlapDocs, cost \in PageCosts, ex \in ProviderDown :
       /\ ProcessBatch(d, cost, ex)
       /\ Len(chunks') <= MaxRows
       /\ flight' = FlightAfter(flight, "process_batch", d, resp')
       /\ UNCHANGED <<client, llm, windows>>
  \/ \E d \in DocIds : DeleteDocument(d) /\ UNCHANGED <<client, fnVars>>
  \/ \E f \in {"f1", "f2"} : DeleteFolder(f) /\ UNCHANGED <<client, fnVars>>
  \/ \E d \in OverlapDocs : BatchLoad(d)
  \/ \E cost \in PageCosts, ex \in ProviderDown : BatchFinish(cost, ex)
  \/ \E cost \in PageCosts, ex \in ProviderDown : BatchKilled(cost, ex)
  \/ \E d \in OverlapDocs : EmbedRead(d)
  \/ \E up \in BOOLEAN, cost \in EmbedCosts : EmbedWrite(up, cost)

SpecOverlap == InitOverlap /\ [][NextOverlap]_vars

TypeOK ==
  /\ \A d \in DocIds : docs[d].status \in
        {"none", "uploaded", "extracting", "processing", "indexed", "error"}
  /\ logs \in 0..MaxLogs

(***************************************************************************)
(* Properties                                                              *)
(***************************************************************************)
IngestOps == {"process_document", "process_batch"}

AllAtCost(h, c) == \A i \in 1..Len(h) : h[i].cost = c

\* C1: a 25-page ingestion whose steps each fit ten pages into the budget
\* persists processedPages 10, then 20, and ends at 25: the first two steps
\* return in_progress, the third returns indexed with the document indexed
\* and totalChunks the sum of the chunks the three steps appended.
C1_Resumability ==
  \A d \in DocIds :
    LET h == hist[d] IN
    AllAtCost(h, ScenarioCost) =>
      /\ Len(h) >= 1 => /\ h[1].status = "in_progress"
                        /\ h[1].pagesProcessed = 10 /\ h[1].persisted = 10
      /\ Len(h) >= 2 => /\ h[2].status = "in_progress"
                        /\ h[2].pagesProcessed = 20 /\ h[2].persisted = 20
      /\ Len(h) >= 3 => /\ h[3].status = "indexed"
                        /\ h[3].pagesProcessed = 25
                        /\ h[3].docStatus = "indexed"
                        /\ h[3].totalChunks = h[1].created + h[2].created + h[3].created
                        /\ h[3].rowCount = h[3].totalChunks

C1_Witness ==
  \E d \in DocIds :
    /\ Len(hist[d]) = 3
    /\ AllAtCost(hist[d], ScenarioCost)
    /\ hist[d][3].status = "indexed"
    /\ hist[d][3].totalChunks = 25

\* C2: a process_batch invocation never lowers the persisted processedPages
\* and never persists more than totalPages.
C2_ProcessedPagesMonotoneBounded ==
  [][\A d \in DocIds :
       (resp'.op = "process_batch" /\ resp'.doc = d
          /\ bstate[d].present /\ bstate'[d].present)
       => /\ bstate'[d].processedPages >= bstate[d].processedPages
          /\ bstate'[d].processedPages <= bstate'[d].totalPages]_vars

\* C3: a batch step segments only pages at or after the persisted
\* processedPages, and no document holds two chunks of the same page and
\* window.
NoChunkTwice ==
  \A i, j \in 1..Len(chunks) :
    (i < j /\ chunks[i].doc = chunks[j].doc)
      => <<chunks[i].pageNumber, chunks[i].text.k>> # <<chunks[j].pageNumber, chunks[j].text.k>>

C3_NoPageTwice ==
  /\ []NoChunkTwice
  /\ [][\A d \in DocIds :
         (resp'.op = "process_batch" /\ resp'.doc = d /\ resp'.kind = "ok")
         => \A i \in 1..Len(resp'.visited) :
              resp'.visited[i] >= bstate[d].processedPages]_vars

C3_Witness ==
  /\ resp.op = "process_batch" /\ resp.kind = "ok"
  /\ Len(resp.visited) > 0 /\ resp.visited[1] > 0
  /\ resp.created > 0

\* C4: a process_batch invocation on an unfinished ingestion returns no
\* error, and either returns indexed or persists a larger processedPages.
C4_ForwardProgress ==
  [][\A d \in DocIds :
       (resp'.op = "process_batch" /\ resp'.doc = d /\ bstate[d].present
          /\ bstate[d].processedPages < bstate[d].totalPages)
       => /\ resp'.kind = "ok"
          /\ \/ resp'.status = "indexed"
             \/ /\ resp'.status = "in_progress"
                /\ bstate'[d].present
                /\ bstate'[d].processedPages > bstate[d].processedPages]_vars

C4_Witness ==
  /\ resp.op = "process_batch" /\ resp.status = "in_progress"
  /\ bstate[resp.doc].present
  /\ bstate[resp.doc].processedPages > 1

GroupsGone(d) == \A g \in GroupIdx : bpages[d][g] = <<>>

\* C5: when a batch step returns indexed, the state record and every page
\* group of the document are deleted and the document's status is indexed.
C5_IndexedCleansUp ==
  \A d \in DocIds :
    (resp.op \in IngestOps /\ resp.doc = d /\ resp.status = "indexed")
      => /\ ~bstate[d].present
         /\ GroupsGone(d)
         /\ docs[d].status = "indexed"

\* C6: when process_document extracts an empty text or one below the
\* minimum length, it returns an error, sets the status to error, appends
\* no chunk and writes no state record or page group.
C6_ShortTextIsError ==
  [][\A d \in DocIds :
       (resp'.op = "process_document" /\ resp'.doc = d /\ resp'.text # ""
          /\ (TextLen(resp'.text) = 0 \/ TextTrimLen(resp'.text) < 10))
       => /\ resp'.kind = "error"
          /\ docs'[d].status = "error"
          /\ chunks' = chunks
          /\ bstate' = bstate
          /\ bpages' = bpages]_vars

C6_Witness ==
  /\ resp.op = "process_document" /\ resp.text = "short" /\ resp.kind = "error"
  /\ docs[resp.doc].status = "error"
  /\ chunks # <<>>

\* C7: a document whose status is indexed has at least one chunk.
C7_IndexedHasChunks ==
  \A d \in DocIds : docs[d].status = "indexed" => RowsOf(chunks, d) # <<>>

\* C8: a request without its required parameter, and process_batch for a
\* document without a state record, return an error and change no store.
C8_InputErrorsMutateNothing ==
  [][( \/ /\ resp'.op \in {"process_document", "process_batch",
                             "get_process_status", "embed_chunks"}
          /\ resp'.doc = NoId
       \/ resp'.op = "query" /\ ~resp'.hasQuery
       \/ /\ resp'.op = "process_batch" /\ resp'.doc # NoId
          /\ ~bstate[resp'.doc].present )
     => /\ resp'.kind = "error"
        /\ UNCHANGED <<docs, bstate, bpages, chunks, logs>>]_vars

C8_Witness ==
  /\ resp.op = "query" /\ ~resp.hasQuery /\ resp.kind = "error"
  /\ chunks # <<>>
  /\ logs < MaxLogs

\* C9: after delete_document no state record, no page group and no chunk
\* of the document remains.
C9_DeleteEndsIngestion ==
  \A d \in DocIds :
    (resp.op = "delete_document" /\ resp.doc = d /\ resp.status = "deleted")
      => /\ ~bstate[d].present
         /\ GroupsGone(d)
         /\ RowsOf(chunks, d) = <<>>

\* the chunk contents one ingestion of text t produces, page by page
RECURSIVE FragmentsFrom(_, _)
FragmentsFrom(pages, p) ==
  IF p > Len(pages) THEN <<>>
  ELSE LET f == engineeringChunkPage(pages[p], p)
       IN  [i \in 1..Len(f) |-> f[i].text] \o FragmentsFrom(pages, p + 1)

ContentsOf(d) == LET r == RowsOf(chunks, d) IN [i \in 1..Len(r) |-> r[i].text]

\* C10: when an ingestion that process_document started reaches indexed,
\* the document holds exactly the chunks of that ingestion, whatever chunks
\* it held before.
C10_ReprocessIdempotent ==
  \A d \in DocIds :
    (resp.op \in IngestOps /\ resp.doc = d /\ resp.status = "indexed"
       /\ run[d].text # "")
      => ContentsOf(d) = FragmentsFrom(splitIntoPages(run[d].text), 1)

C10_Witness ==
  \E d \in DocIds :
    /\ resp.op \in IngestOps /\ resp.doc = d /\ resp.status = "indexed"
    /\ run[d].hadChunks
    /\ RowsOf(chunks, d) # <<>>

(***************************************************************************)
(* Properties of the query pipeline and of the embedding backfill          *)
(***************************************************************************)
QueryAnswered == resp.op = "query" /\ resp.kind = "ok"

IngestionErrors ==
  {"Document ID required", "Document not found", "No Drive file linked",
   "Drive file not found", "Could not extract text", "Processing failed",
   "No batch processing state found"}

\* C11: a query with text against a non-empty chunk store returns a success
\* payload with an answer whatever the providers return, and a batch step
\* returns no error other than those of its input and of the extraction of
\* the text.
C11_ProviderFailuresNeverError ==
  /\ (resp.op = "query" /\ resp.hasQuery /\ chunks # <<>>)
       => (resp.kind = "ok" /\ resp.q.answer # "")
  /\ (resp.op \in IngestOps /\ resp.kind = "error") => resp.err \in IngestionErrors

\* C12: a scored chunk without a usable embedding has its lexical score as
\* its hybrid score.
C12_NoVectorMeansLexical ==
  QueryAnswered =>
    \A i \in 1..Len(resp.q.ranked) :
      ~resp.q.ranked[i].usable => resp.q.ranked[i].hybrid = resp.q.ranked[i].kw

RerankHasValidIndex ==
  /\ resp.q.usedRerank /\ resp.q.rerank.kind = "array"
  /\ \E j \in 1..Len(resp.q.rerank.indices) :
       IsValidIndex(resp.q.rerank.indices[j], Slice(resp.q.ranked, CANDIDATE_LIMIT))

\* C13: when the re-rank answer holds a valid index, the matches hold no
\* candidate twice, are at most k, and their scores descend strictly.
C13_RerankValidated ==
  (QueryAnswered /\ RerankHasValidIndex) =>
    LET m == resp.q.matches IN
    /\ Len(m) <= resp.q.k
    /\ \A i, j \in 1..Len(m) : i < j => m[i].id # m[j].id
    /\ \A i \in 1..(Len(m) - 1) : m[i].similarity > m[i + 1].similarity

\* C14: when the re-rank call fails, answers with something that is no JSON
\* array, or there are no more candidates than k, the matches are the first
\* k entries of the ranking, with their order and scores.
C14_RerankFallback ==
  (QueryAnswered /\ (~resp.q.usedRerank \/ resp.q.rerank.kind \in RerankFailures))
    => resp.q.matches = Slice(resp.q.ranked, resp.q.k)

C14_Witness ==
  /\ QueryAnswered /\ resp.q.usedRerank /\ resp.q.rerank.kind = "nonjson"
  /\ Len(resp.q.ranked) > resp.q.k
  /\ Len(resp.q.matches) = resp.q.k
  /\ resp.q.matches[1].similarity > resp.q.matches[2].similarity

\* C15: a query with text appends one QueryLogs row whenever the sheet takes
\* the row, whatever the outcome of the query.
C15_EveryQueryLogged ==
  [][(resp'.op = "query" /\ resp'.hasQuery /\ resp'.q.logOk) => logs' = logs + 1]_vars

\* C16: when every embedding endpoint fails, an answered query reports
\* keyword search, scores every chunk by its lexical score, and answers
\* when a chunk scores above the floor.
C16_LexicalOnlyWhenEmbeddingDown ==
  (QueryAnswered /\ resp.q.emb = "down") =>
    /\ resp.q.searchMode = "keyword"
    /\ \A i \in 1..Len(resp.q.ranked) : resp.q.ranked[i].hybrid = resp.q.ranked[i].kw
    /\ Len(resp.q.ranked) > 0 =>
         (Len(resp.q.matches) > 0
            /\ resp.q.answer \notin {"", "No relevant documents found"})

C16_Witness ==
  /\ QueryAnswered /\ resp.q.emb = "down"
  /\ Len(resp.q.matches) > 0
  /\ \E i \in 1..Len(chunks) : chunks[i].emb

\* C17: embed_chunks changes nothing but the embedding of chunks of the given
\* document that had none; when every chunk of the document has one, it
\* changes nothing.
C17_BackfillFrame ==
  [][resp'.op = "embed_chunks" =>
       /\ UNCHANGED <<docs, bstate, bpages, logs>>
       /\ Len(chunks') = Len(chunks)
       /\ \A i \in 1..Len(chunks) :
            /\ [chunks'[i] EXCEPT !.emb = chunks[i].emb] = chunks[i]
            /\ chunks'[i].emb # chunks[i].emb
                 => (chunks[i].doc = resp'.doc /\ ~chunks[i].emb)
       /\ (\A i \in 1..Len(chunks) : chunks[i].doc = resp'.doc => chunks[i].emb)
            => chunks' = chunks]_vars

C17_Witness ==
  /\ resp.op = "embed_chunks" /\ resp.created > 0
  /\ \E i \in 1..Len(chunks) : chunks[i].doc = resp.doc /\ chunks[i].emb
  /\ \E i \in 1..Len(chunks) : chunks[i].doc # resp.doc /\ ~chunks[i].emb

\* C18: every page a batch step hands to engineeringChunkPage yields at
\* least one fragment.
C18_NonEmptyPageHasFragment ==
  (resp.op \in IngestOps /\ resp.kind = "ok")
    => \A i \in 1..Len(resp.yield) : resp.yield[i] >= 1

\* C19: every match of a query belongs to the requested document, or to a
\* document of the requested folder when no document is requested, and
\* passes the panel and the voltage filter.
C19_ScopedSearch ==
  QueryAnswered =>
    \A i \in 1..Len(resp.q.matches) :
      LET row == chunks[resp.q.matches[i].id]
          req == resp.q.req
      IN  /\ req.documentId # NoId => row.doc = req.documentId
          /\ (req.documentId = NoId /\ req.folderId # NoFolder)
               => (docs[row.doc].exists /\ docs[row.doc].folder = req.folderId)
          /\ req.filterPanel # ""
               => Contains(toUpperCase(Chars[row.panel]), toUpperCase(Chars[req.filterPanel]))
          /\ req.filterVoltage # ""
               => Contains(toUpperCase(Chars[row.voltage]),
                           toUpperCase(Chars[req.filterVoltage]))

C19_Witness ==
  /\ QueryAnswered
  /\ resp.q.req.documentId = "d1" /\ resp.q.req.folderId = "f2"
  /\ Len(resp.q.matches) > 0
  /\ \E i \in 1..Len(chunks) : chunks[i].doc = "d2"

\* C20: the client makes at most MAX_ITERATIONS process_batch calls, and the
\* result it returns has status indexed.
C20_ClientReturnsIndexed ==
  /\ client.maxIterations \in 0..MAX_ITERATIONS
  /\ client.pc = "returned" => client.result = "indexed"

\* C21: when the drafting provider gives no answer, an answered query with
\* matches returns the failure message of the drafting step as its answer.
C21_DraftFailureIsTheAnswer ==
  (QueryAnswered /\ Len(resp.q.matches) > 0 /\ resp.q.draft = "down")
    => resp.q.answer = DraftFailure

\* C29: for a schematic the answer is the draft and the verifier is not
\* called; in every other mode a verifier that gives no answer leaves the
\* draft as the answer.
C29_VerificationSkipOrFallback ==
  (QueryAnswered /\ Len(resp.q.matches) > 0) =>
    /\ resp.q.req.outputType = "schematic"
         => (resp.q.answer = generateAnswer(resp.q.draft) /\ ~resp.q.verifyCalled)
    /\ (resp.q.req.outputType # "schematic" /\ resp.q.verify = "down")
         => resp.q.answer = generateAnswer(resp.q.draft)

C29_Witness ==
  /\ QueryAnswered /\ Len(resp.q.matches) > 0
  /\ resp.q.req.outputType = "schematic" /\ resp.q.verify = "ok"
  /\ resp.q.answer = "draft"

\* C22: the lexical score and the hybrid score of every scored chunk, before
\* the floor, lie between 0 and 1.
C22_ScoresInUnitInterval ==
  QueryAnswered =>
    \A i \in 1..Len(resp.q.scored) :
      /\ resp.q.scored[i].kw \in 0..ScoreUnit
      /\ resp.q.scored[i].hybrid \in 0..ScoreUnit

\* C25: the ranking holds the scored chunks above the floor and no other,
\* in descending order of the combined score with equal scores in row
\* order, and the matches come from its first CANDIDATE_LIMIT entries.
C25_CandidateRetrieval ==
  QueryAnswered =>
    LET scored == resp.q.scored
        ranked == resp.q.ranked
    IN  /\ Len(ranked) = Cardinality({i \in 1..Len(scored) : scored[i].hybrid > SCORE_FLOOR})
        /\ \A i \in 1..Len(ranked) :
             /\ ranked[i].hybrid > SCORE_FLOOR
             /\ \E j \in 1..Len(scored) : scored[j] = ranked[i]
        /\ \A i, j \in 1..Len(ranked) :
             i < j => \/ ranked[i].hybrid > ranked[j].hybrid
                      \/ (ranked[i].hybrid = ranked[j].hybrid /\ ranked[i].id < ranked[j].id)
        /\ \A i \in 1..Len(resp.q.matches) :
             \E j \in 1..Min2(Len(ranked), CANDIDATE_LIMIT) :
               ranked[j].id = resp.q.matches[i].id

\* C23: a batch step that the time guard ended segments no page beyond the
\* pages it completed, persists processedPages and totalChunks increased by
\* the pages completed and the chunks appended in the step, returns
\* in_progress without an error, and leaves the status of the document as
\* it is (processing, as process_document set it).
C23_TimeGuardPersistsProgress ==
  [][(resp'.op \in {"process_document", "process_batch"} /\ resp'.guard) =>
       LET d   == resp'.doc
           old == IF resp'.op = "process_batch" THEN bstate[d]
                  ELSE [bstate'[d] EXCEPT !.processedPages = 0, !.totalChunks = 0]
       IN  /\ resp'.kind = "ok" /\ resp'.status = "in_progress"
           /\ bstate'[d].present
           /\ bstate'[d].processedPages = old.processedPages + resp'.done
           /\ bstate'[d].totalChunks = old.totalChunks + resp'.created
           /\ resp'.pagesProcessed = bstate'[d].processedPages
           /\ resp'.totalChunks = bstate'[d].totalChunks
           /\ \A i \in 1..Len(resp'.visited) :
                /\ resp'.visited[i] >= old.processedPages
                /\ resp'.visited[i] < old.processedPages + resp'.done
           /\ resp'.op = "process_batch"
                => /\ Len(chunks') = Len(chunks) + resp'.created
                   /\ docs' = docs
           /\ resp'.op = "process_document" => docs'[d].status = "processing"]_vars

C23_Witness ==
  /\ resp.op = "process_batch" /\ resp.guard /\ resp.status = "in_progress"
  /\ resp.done > 1 /\ resp.created > 1
  /\ bstate[resp.doc].processedPages > resp.done
  /\ docs[resp.doc].status = "processing"

PipelineOps ==
  {"process_document", "process_batch", "embed_chunks", "get_process_status", "query"}

\* C24: error is absorbing: no pipeline operation (process_document,
\* process_batch, embed_chunks, get_process_status, query) moves a document
\* whose status is error to another status.
C24_ErrorAbsorbing ==
  [][\A d \in DocIds :
       (docs[d].exists /\ docs[d].status = "error" /\ resp'.op \in PipelineOps)
         => (docs'[d].exists /\ docs'[d].status = "error")]_vars

EndpointOrder ==
  << <<"gemini-2.0-flash", "v1">>, <<"gemini-2.0-flash", "v1beta">>,
     <<"gemini-1.5-flash", "v1">>, <<"gemini-1.5-flash", "v1beta">>,
     <<"gemini-1.5-pro", "v1">>, <<"gemini-1.5-pro", "v1beta">> >>

\* C26: callGemini without an API key returns null and fetches nothing; with
\* a key it fetches the six endpoints (three models, v1 before v1beta for
\* each) in their fixed order, stops at the first one that answers with a
\* text and returns that text, goes on after a non-200 status, a thrown fetch
\* or a response without candidates, and returns null only when all six
\* were fetched and none answered with a text.
C26_ModelFallbackOrder ==
  llm.returned =>
    IF ~llm.apiKey THEN llm.fetched = <<>> /\ llm.result = NullResult
    ELSE /\ Len(llm.fetched) \in 1..Len(EndpointOrder)
         /\ llm.fetched = SubSeq(EndpointOrder, 1, Len(llm.fetched))
         /\ \A i \in 1..(Len(llm.fetched) - 1) : llm.net[llm.fetched[i]] # "text"
         /\ IF llm.net[llm.fetched[Len(llm.fetched)]] = "text"
              THEN llm.result = [kind |-> "text",
                                 model |-> llm.fetched[Len(llm.fetched)][1],
                                 version |-> llm.fetched[Len(llm.fetched)][2]]
              ELSE llm.result = NullResult /\ Len(llm.fetched) = Len(EndpointOrder)

C26_Witness ==
  /\ llm.returned /\ llm.apiKey
  /\ llm.net[<<"gemini-2.0-flash", "v1">>] = "status"
  /\ llm.net[<<"gemini-2.0-flash", "v1beta">>] = "throws"
  /\ llm.net[<<"gemini-1.5-flash", "v1">>] = "nocandidates"
  /\ llm.net[<<"gemini-1.5-flash", "v1beta">>] = "text"
  /\ llm.net[<<"gemini-1.5-pro", "v1">>] = "text"
  /\ llm.result = [kind |-> "text", model |-> "gemini-1.5-flash", version |-> "v1beta"]
  /\ Len(llm.fetched) = 4

\* C27: every fragment of a page, and so every chunk row, starts with the
\* page marker of its page, the windows of a hard split included.
C27_EveryFragmentMarked ==
  \A i \in 1..Len(chunks) : HasMarker(chunks[i])

SamePage(a, b) ==
  /\ a.doc = b.doc /\ a.pageNumber = b.pageNumber
  /\ a.text.src = b.text.src /\ a.text.idx = b.text.idx

C30_GroupsWithinCeiling ==
  \A d \in DocIds : \A g \in GroupIdx : SumLen(bpages[d][g]) <= 8000

AllEmbedded(d) == \A i \in 1..Len(chunks) : chunks[i].doc = d => chunks[i].emb

\* C36: embed_chunks answers indexed only when every chunk of the document
\* has an embedding after the pass, and partial while one of them has none.
C36_EmbedStatusTruthful ==
  (resp.op = "embed_chunks" /\ resp.kind = "ok") =>
    /\ resp.status = "indexed" => AllEmbedded(resp.doc)
    /\ ~AllEmbedded(resp.doc) => resp.status = "partial"

\* C37: a document whose status is error has no chunk rows.
C37_ErrorHasNoChunks ==
  \A d \in DocIds :
    (docs[d].exists /\ docs[d].status = "error") => RowsOf(chunks, d) = <<>>

\* C38: after every invocation, a document whose status is extracting or
\* processing has a stored batch state that process_batch can resume.
C38_NoDocumentStuck ==
  \A d \in DocIds :
    (docs[d].exists /\ docs[d].status \in {"extracting", "processing"})
      => bstate[d].present

\* C40: the matches of an answered query are exactly min(k, number of
\* candidates) many, k being the requested match count or 8 when none is
\* requested.
C40_MatchSetSize ==
  QueryAnswered =>
    Len(resp.q.matches)
      = Min2(IF resp.q.req.matchCount = 0 THEN 8 ELSE resp.q.req.matchCount,
             Min2(Len(resp.q.ranked), 20))

\* C39: the windows of the fixed-size-window strategy cover the text: the
\* first starts at the first character, each one starts where the one before
\* it ended, also after an end moved to a newline, and the last ends at the
\* end of the text.
C39_WindowsCoverText ==
  windows.done =>
    /\ Len(windows.pages) >= 1
    /\ windows.pages[1].start = 0
    /\ \A j \in 1..(Len(windows.pages) - 1) :
         windows.pages[j + 1].start = windows.pages[j].end
    /\ windows.pages[Len(windows.pages)].end = windows.len

RowsOfPage(d, p) == LET OnPage(row) == row.doc = d /\ row.pageNumber = p
                    IN  SelectSeq(chunks, OnPage)

\* the rows of a page, in order, hold the marker and then the page from its
\* first to its last character, each row going on where an earlier one ended
\* or inside it
CoversPage(rs, pg, p) ==
  /\ Len(rs) >= 1
  /\ rs[1].text.k = 0
  /\ \A j \in 1..(Len(rs) - 1) :
       /\ rs[j + 1].text.k > rs[j].text.k
       /\ rs[j + 1].text.k <= rs[j].text.k + rs[j].text.len
  /\ rs[Len(rs)].text.k + rs[Len(rs)].text.len = MarkerLen(p) + pg.len

\* C31: segmentation loses no content: when an ingestion reaches indexed,
\* the fragments of every page of the text, taken in order without the
\* marker and the overlap, hold the page from its first to its last
\* character.
C31_SegmentationLosesNothing ==
  \A d \in DocIds :
    (resp.op \in IngestOps /\ resp.doc = d /\ resp.status = "indexed"
       /\ run[d].text # "")
      => \A p \in 1..Len(splitIntoPages(run[d].text)) :
           CoversPage(RowsOfPage(d, p), splitIntoPages(run[d].text)[p], p)

\* C34: every chunk row belongs to a document that has a row in the
\* Documents sheet.
C34_ChunksHaveDocument ==
  \A i \in 1..Len(chunks) : docs[chunks[i].doc].exists

RowsOnce(d) ==
  \A i, j \in 1..Len(chunks) :
    (i < j /\ chunks[i].doc = d /\ chunks[j].doc = d)
      => <<chunks[i].pageNumber, chunks[i].text.k>> # <<chunks[j].pageNumber, chunks[j].text.k>>

\* the chunk count on record for the document: in the batch state while there
\* is one, else in the Documents row
CountOnRecord(d) ==
  IF bstate[d].present THEN bstate[d].totalChunks ELSE docs[d].pageCount

\* C32: when a process_batch invocation ends that another process_batch or
\* process_document of the same document overlapped, every page's chunks are
\* stored once and the chunk count on record is the number of chunk rows of
\* the document.
C32_OverlapKeepsCounts ==
  (flight.pc = "done" /\ flight.op = "process_batch" /\ flight.overlapped
     /\ resp.op = "process_batch" /\ resp.doc = flight.doc /\ resp.kind = "ok"
     /\ docs[flight.doc].exists)
    => /\ RowsOnce(flight.doc)
       /\ CountOnRecord(flight.doc) = Len(RowsOf(chunks, flight.doc))

\* C33: when a document reaches indexed after a batch step of its ingestion
\* was killed between appending its rows and saving the state, no page has
\* its chunks stored twice and totalChunks is the number of its chunk rows.
C33_KilledStepLeavesNoDuplicate ==
  \A d \in DocIds :
    (resp.op \in IngestOps /\ resp.doc = d /\ resp.status = "indexed"
       /\ d \in flight.killed)
      => /\ RowsOnce(d)
         /\ resp.totalChunks = Len(RowsOf(chunks, d))

\* C35: an embed_chunks invocation that read the sheet before a deletion
\* writes each embedding into the row of the chunk it embedded.
C35_EmbeddingInOwnRow ==
  [][(flight.pc = "scanned" /\ flight'.pc = "done") =>
       \A i \in flight'.written :
         /\ i <= Len(chunks)
         /\ chunks[i].doc = flight.rows[i].doc
         /\ chunks[i].text = flight.rows[i].text
         /\ chunks[i].pageNumber = flight.rows[i].pageNumber]_vars


====
